---- MODULE Spec2Model ----
(***************************************************************************)
(* Model of the AzerothCore web auction-house viewer (main.go): the four   *)
(* JSON handlers, the SQL they run against the game server's tables, the   *)
(* pure helpers they call, and the script of the page they serve.          *)
(*                                                                         *)
(* Text is a sequence of one-character strings, so that formatting and     *)
(* parsing are computed character by character.  A nullable SQL value is   *)
(* <<>> (NULL) or <<v>>.                                                   *)
(***************************************************************************)
EXTENDS Integers, Sequences, FiniteSets, TLC

VARIABLES
    auctionhouse,   \* table auctionhouse: a set of listing rows
    item_instance,  \* table item_instance: guid -> [itemEntry, count]
    characters,     \* table characters: guid -> name
    item_template,  \* table acore_world.item_template: entry -> [name, Quality, ItemLevel]
    now,            \* the clock read by UNIX_TIMESTAMP() and time.Now().Unix()
    pc,             \* position of the request being handled
    handler,        \* the handler the request was routed to
    param,          \* its query parameter (page or q)
    page,           \* handleGetAuctions: the local variable page
    rows,           \* the *sql.Rows of the request: the rows the query produced
    stats,          \* handleGetStats: the local variable stats
    resp,           \* the response written
    queries,        \* the queries the request has sent to the database, in order
    seconds,        \* formatTimeLeft: its argument
    label,          \* formatTimeLeft: its result
    boot,           \* position of main
    pinged,         \* the outcome of db.Ping: "no" before it, then "ok" or "failed"
    maxOpen,        \* the pool's limit of open connections, 0 for none
    numOpen,        \* the pool's open connections, in use or idle
    inUse,          \* the pool's connections held by requests
    inflight,       \* the requests being handled side by side: how many at each position
    currentPage,    \* the page script's global currentPage
    currentSearch,  \* the page script's global currentSearch
    currentAuctions, \* the page script's global currentAuctions
    auctionsBody,   \* the element auctionsBody: what the table shows
    pagination,     \* the element pagination: <<>> when empty, else <<the active page>>
    interval,       \* whether setInterval has installed the 30 s timer
    fetches,        \* the fetches the script has issued, in order, pending or settled
    aVal,           \* sortAuctions: the comparator's local aVal
    bVal            \* sortAuctions: the comparator's local bVal

vars == <<auctionhouse, item_instance, characters, item_template, now, pc,
          handler, param, page, rows, stats, resp, queries, seconds, label,
          boot, pinged, maxOpen, numOpen, inUse, inflight, currentPage,
          currentSearch, currentAuctions, auctionsBody, pagination, interval,
          fetches, aVal, bVal>>

tables == <<auctionhouse, item_instance, characters, item_template>>

request == <<pc, handler, param, page, rows, stats, resp, queries>>

server == <<boot, pinged, maxOpen, numOpen, inUse, inflight>>

client == <<currentPage, currentSearch, currentAuctions, auctionsBody,
            pagination, interval, fetches, aVal, bVal>>

----------------------------------------------------------------------------
(* Bounds of the model.                                                    *)

\* Largest number of listings in a store whose rows are drawn field by field.
MaxListings == 2
\* Largest number of listings in a store of uniform live listings.
MaxBulk == 52
\* Number of seconds the clock may advance.
MaxTicks == 2
\* Largest number of listings in the stores every handler is run over.
MaxFew == 1
\* Largest number of requests accepted side by side.
MaxRequests == 26
MaxSellerListings == 3
\* Longest page parameter drawn.
MaxPageLen == 2
\* Largest argument of formatTimeLeft drawn.
MaxSeconds == 180000
\* Smallest argument of formatTimeLeft drawn is -MinSeconds.
MinSeconds == 3

\* The clock's first value.
Now0 == 100

----------------------------------------------------------------------------
(* Text.                                                                   *)

DigitChars == <<"0", "1", "2", "3", "4", "5", "6", "7", "8", "9">>

IsDigit(ch) == \E d \in 1..10 : DigitChars[d] = ch

DigitVal(ch) == (CHOOSE d \in 1..10 : DigitChars[d] = ch) - 1

RECURSIVE FormatNat(_)
\* fmt's %d of a non-negative int.
FormatNat(n) ==
    IF n < 10 THEN <<DigitChars[n + 1]>>
    ELSE Append(FormatNat(n \div 10), DigitChars[(n % 10) + 1])

\* fmt's %d.
FormatInt(n) == IF n < 0 THEN <<"-">> \o FormatNat(-n) ELSE FormatNat(n)

Expired == <<"E", "x", "p", "i", "r", "e", "d">>

\* formatTimeLeft with the hours not reduced modulo a day.
formatTimeLeft_hoursOfTotal(s) ==
    IF s <= 0 THEN Expired
    ELSE LET days == s \div 86400
             hours == s \div 3600
             minutes == (s % 3600) \div 60
         IN  IF days > 0
             THEN FormatInt(days) \o <<"d", " ">> \o FormatInt(hours) \o <<"h">>
             ELSE IF hours > 0
             THEN FormatInt(hours) \o <<"h", " ">> \o FormatInt(minutes) \o <<"m">>
             ELSE FormatInt(minutes) \o <<"m">>

\* Go's / and % truncate toward zero; every operand is positive here.
formatTimeLeft(s) ==
    IF s <= 0 THEN Expired
    ELSE LET days == s \div 86400
             hours == (s % 86400) \div 3600
             minutes == (s % 3600) \div 60
         IN  IF days > 0
             THEN FormatInt(days) \o <<"d", " ">> \o FormatInt(hours) \o <<"h">>
             ELSE IF hours > 0
             THEN FormatInt(hours) \o <<"h", " ">> \o FormatInt(minutes) \o <<"m">>
             ELSE FormatInt(minutes) \o <<"m">>

----------------------------------------------------------------------------
(* The tables, and the values the stores are drawn from.                   *)

NULL == <<>>

Unknown == <<"U", "n", "k", "n", "o", "w", "n">>

UnknownItem == <<"U", "n", "k", "n", "o", "w", "n", " ", "I", "t", "e", "m">>

\* Owner 3 has no row in characters.
OwnerGuids == {1, 2, 3}

Characters0 == (1 :> <<"A", "n", "n">>) @@ (2 :> <<"b", "o">>)

\* Item 2 is of an entry with no row in item_template; item 3 has no row in
\* item_instance.
ItemGuids == {1, 2, 3}

ItemInstance0 ==
    (1 :> [itemEntry |-> 10, count |-> 1]) @@ (2 :> [itemEntry |-> 20, count |-> 5])

ItemTemplate0 ==
    (10 :> [name |-> <<"A", "x", "e">>, Quality |-> 2, ItemLevel |-> 7])

Prices == {0, 5}

Bids == {0, 3}

Times == (Now0 + 1)..(Now0 + 2)

ListingFields ==
    [itemguid : ItemGuids, itemowner : OwnerGuids, buyoutprice : Prices,
     time : Times, lastbid : Bids]

Listing(i, f) ==
    [id |-> i, itemguid |-> f.itemguid, itemowner |-> f.itemowner,
     buyoutprice |-> f.buyoutprice, time |-> f.time, lastbid |-> f.lastbid]

\* A number for each choice of fields, to order them.
FieldsCode(f) ==
    (((f.itemguid * 4 + f.itemowner) * 8 + f.buyoutprice) * 4 + (f.time - Now0)) * 4
        + f.lastbid

\* The stores of n listings with identifiers 1..n, each field drawn freely.  No
\* query reads the identifier but to return it, so of the stores that differ only
\* in which listing bears which identifier one is kept.
Stores(n) ==
    {{Listing(i, f[i]) : i \in 1..n} :
        f \in {g \in [1..n -> ListingFields] :
                  \A i \in 1..n, j \in 1..n :
                      i < j => FieldsCode(g[i]) <= FieldsCode(g[j])}}

\* The fields of the listings of the stores the seller rollup is run over:
\* the rollup reads no bid, and of the item only whether it resolves.
SellerFields ==
    [itemguid : {1, 3}, itemowner : OwnerGuids, buyoutprice : Prices,
     time : Times, lastbid : {0}]

\* The stores of n listings of fields SellerFields, one per choice of
\* identifiers as in Stores.
SellerStores(n) ==
    {{Listing(i, f[i]) : i \in 1..n} :
        f \in {g \in [1..n -> SellerFields] :
                  \A i \in 1..n, j \in 1..n :
                      i < j => FieldsCode(g[i]) <= FieldsCode(g[j])}}

\* The store of n listings expiring one second apart, of two owners.  All
\* resolve but the last, whose item has no row in item_instance.
BulkStore(n) ==
    {[id |-> i, itemguid |-> IF i = n THEN 3 ELSE 1, itemowner |-> 1 + (i % 2),
      buyoutprice |-> 5, time |-> Now0 + i, lastbid |-> 0] : i \in 1..n}

----------------------------------------------------------------------------
(* SQL.                                                                    *)

\* A LEFT JOIN on a key: the joined row, or NULL.
LeftJoin(table, key) == IF key \in DOMAIN table THEN <<table[key]>> ELSE NULL

COALESCE(v, default) == IF v = NULL THEN default ELSE v[1]

\* WHERE ah.time > UNIX_TIMESTAMP(), with >= for >.
Live_orEqual(ah) == ah.time >= now

\* WHERE ah.time > UNIX_TIMESTAMP()
Live(ah) == ah.time > now

\* The row of the listing and search queries for listing ah: the SELECT list
\* over the three joins.
SelectRow(ah) ==
    LET ii == LeftJoin(item_instance, ah.itemguid)
        c == LeftJoin(characters, ah.itemowner)
        it == IF ii = NULL THEN NULL ELSE LeftJoin(item_template, ii[1].itemEntry)
    IN  [id |-> ah.id, itemguid |-> ah.itemguid, itemowner |-> ah.itemowner,
         buyoutprice |-> ah.buyoutprice, time |-> ah.time, lastbid |-> ah.lastbid,
         itemEntry |-> IF ii = NULL THEN NULL ELSE <<ii[1].itemEntry>>,
         count |-> IF ii = NULL THEN NULL ELSE <<ii[1].count>>,
         owner_name |-> COALESCE(c, Unknown),
         item_name |-> COALESCE(IF it = NULL THEN NULL ELSE <<it[1].name>>, UnknownItem),
         quality |-> COALESCE(IF it = NULL THEN NULL ELSE <<it[1].Quality>>, 0),
         item_level |-> COALESCE(IF it = NULL THEN NULL ELSE <<it[1].ItemLevel>>, 0),
         c_name |-> c,
         it_name |-> IF it = NULL THEN NULL ELSE <<it[1].name>>]

RECURSIVE OrderByTime_descending(_)
\* ORDER BY ah.time DESC.
OrderByTime_descending(S) ==
    IF S = {} THEN {<<>>}
    ELSE LET first == {r \in S : \A q \in S : r.time >= q.time}
         IN  UNION {{<<r>> \o t : t \in OrderByTime_descending(S \ {r})} : r \in first}

RECURSIVE OrderByTime(_)
\* ORDER BY ah.time ASC: every order of the listings that is ascending in time;
\* the server is free in the order of rows of equal time.
OrderByTime(S) ==
    IF S = {} THEN {<<>>}
    ELSE LET first == {r \in S : \A q \in S : r.time <= q.time}
         IN  UNION {{<<r>> \o t : t \in OrderByTime(S \ {r})} : r \in first}

Min(a, b) == IF a < b THEN a ELSE b

\* LIMIT n OFFSET m with one more row than asked for.
LimitOffset_offByOne(s, n, m) == SubSeq(s, m + 1, Min(Len(s), m + n + 1))

\* LIMIT n OFFSET m, for m >= 0.
LimitOffset(s, n, m) == SubSeq(s, m + 1, Min(Len(s), m + n))

LowerCase ==
    <<"a", "b", "c", "d", "e", "f", "g", "h", "i", "j", "k", "l", "m",
      "n", "o", "p", "q", "r", "s", "t", "u", "v", "w", "x", "y", "z">>

UpperCase ==
    <<"A", "B", "C", "D", "E", "F", "G", "H", "I", "J", "K", "L", "M",
      "N", "O", "P", "Q", "R", "S", "T", "U", "V", "W", "X", "Y", "Z">>

\* The weight of a character under the name columns' case-insensitive collation.
Fold(ch) ==
    IF \E k \in 1..26 : UpperCase[k] = ch
    THEN LowerCase[CHOOSE k \in 1..26 : UpperCase[k] = ch]
    ELSE ch

RECURSIVE Like(_, _)
\* text LIKE pattern: % is any run of characters, _ any one character, and a
\* backslash takes the next character literally.
Like(text, pattern) ==
    IF pattern = <<>> THEN text = <<>>
    ELSE IF pattern[1] = "%"
    THEN Like(text, Tail(pattern)) \/ (text # <<>> /\ Like(Tail(text), pattern))
    ELSE IF pattern[1] = "_"
    THEN text # <<>> /\ Like(Tail(text), Tail(pattern))
    ELSE IF pattern[1] = "\\" /\ Len(pattern) > 1
    THEN /\ text # <<>>
         /\ Fold(text[1]) = Fold(pattern[2])
         /\ Like(Tail(text), Tail(Tail(pattern)))
    ELSE /\ text # <<>>
         /\ Fold(text[1]) = Fold(pattern[1])
         /\ Like(Tail(text), Tail(pattern))

\* v LIKE pattern of a nullable v: NULL LIKE pattern is NULL, which WHERE rejects.
LikeNullable(v, pattern) == v # NULL /\ Like(v[1], pattern)

RECURSIVE SUM(_)
\* SUM(ah.buyoutprice) over a non-empty set of listings.
SUM(S) ==
    IF S = {} THEN 0
    ELSE LET ah == CHOOSE x \in S : TRUE IN ah.buyoutprice + SUM(S \ {ah})

\* The listings the listing query's WHERE keeps.
AuctionsWhere == {ah \in auctionhouse : Live(ah)}

\* The listings the search query's WHERE keeps.
SearchWhere(searchPattern) ==
    {ah \in auctionhouse :
        /\ Live(ah)
        /\ \/ LikeNullable(SelectRow(ah).it_name, searchPattern)
           \/ LikeNullable(SelectRow(ah).c_name, searchPattern)}

\* The rows of the listing and search queries for the listings of s, in order.
Select(s) == [i \in 1..Len(s) |-> SelectRow(s[i])]

\* The primary stats query with an inner join of item_instance.
StatsRow_innerJoin ==
    LET live == {ah \in auctionhouse : Live(ah) /\ ah.itemguid \in DOMAIN item_instance}
        entries == {LeftJoin(item_instance, ah.itemguid) : ah \in live} \ {NULL}
    IN  [total_items |-> Cardinality(live),
         total_value |-> IF live = {} THEN NULL ELSE <<SUM(live)>>,
         unique_owners |-> Cardinality({ah.itemowner : ah \in live}),
         unique_items |-> Cardinality({e[1].itemEntry : e \in entries})]

\* The one row of the primary stats query.  SUM over no rows is NULL.
StatsRow ==
    LET live == {ah \in auctionhouse : Live(ah)}
        entries == {LeftJoin(item_instance, ah.itemguid) : ah \in live} \ {NULL}
    IN  [total_items |-> Cardinality(live),
         total_value |-> IF live = {} THEN NULL ELSE <<SUM(live)>>,
         unique_owners |-> Cardinality({ah.itemowner : ah \in live}),
         unique_items |-> Cardinality({e[1].itemEntry : e \in entries})]

\* SELECT COUNT(*) FROM auctionhouse WHERE lastbid > 0 AND time > UNIX_TIMESTAMP()
BidCount == Cardinality({ah \in auctionhouse : ah.lastbid > 0 /\ Live(ah)})

\* The rows of the seller query, before ORDER BY: one per (itemowner, c.name)
\* group of the live listings whose owner has a name.
SellersGroups ==
    LET named == {ah \in auctionhouse :
                     Live(ah) /\ LeftJoin(characters, ah.itemowner) # NULL}
        group(o) == {ah \in named : ah.itemowner = o}
        entries(o) == {LeftJoin(item_instance, ah.itemguid) : ah \in group(o)} \ {NULL}
    IN  {[itemowner |-> o,
          seller_name |-> characters[o],
          total_auctions |-> Cardinality(group(o)),
          total_value |-> SUM(group(o)),
          unique_items |-> Cardinality({e[1].itemEntry : e \in entries(o)})]
         : o \in {ah.itemowner : ah \in named}}

\* ORDER BY total_auctions DESC alone.
SellerBefore_countOnly(r, q) == r.total_auctions >= q.total_auctions

\* r comes no later than q under ORDER BY total_auctions DESC, total_value DESC.
SellerBefore(r, q) ==
    \/ r.total_auctions > q.total_auctions
    \/ r.total_auctions = q.total_auctions /\ r.total_value >= q.total_value

RECURSIVE OrderSellers(_)
\* Every order of the seller rows that the ORDER BY allows.
OrderSellers(S) ==
    IF S = {} THEN {<<>>}
    ELSE LET first == {r \in S : \A q \in S : SellerBefore(r, q)}
         IN  UNION {{<<r>> \o t : t \in OrderSellers(S \ {r})} : r \in first}

----------------------------------------------------------------------------
(* Go: parsing, decoding and the row loops.                                *)

RECURSIVE ParseDigits(_)
ParseDigits(s) ==
    IF s = <<>> THEN 0
    ELSE ParseDigits(SubSeq(s, 1, Len(s) - 1)) * 10 + DigitVal(s[Len(s)])

\* strconv.Atoi of a string of fewer than 19 bytes: an optional sign, then
\* decimal digits only; n is 0 when err is set.
Atoi(s) ==
    IF s = <<>> THEN [n |-> 0, err |-> TRUE]
    ELSE LET digits == IF s[1] \in {"-", "+"} THEN Tail(s) ELSE s
         IN  IF digits = <<>> \/ \E i \in 1..Len(digits) : ~IsDigit(digits[i])
             THEN [n |-> 0, err |-> TRUE]
             ELSE [n |-> IF s[1] = "-" THEN -ParseDigits(digits) ELSE ParseDigits(digits),
                   err |-> FALSE]

limit == 50

SearchLimit == 100

\* page with a parse failure not defaulted.
PageOf_noDefault(p) == Atoi(p).n

\* page, _ := strconv.Atoi(...); if page < 1 { page = 1 }
PageOf(p) == LET n == Atoi(p).n IN IF n < 1 THEN 1 ELSE n

\* Go's int is 64 bits wide here.  Where a page may pass 2^31 the int is kept
\* as a sign and a magnitude, the magnitude as its decimal digits, lowest
\* first and without leading zeros (zero is <<>>).
Int64(neg, mag) == [neg |-> neg, mag |-> mag]

RECURSIVE Canon(_)
Canon(m) ==
    IF m # <<>> /\ m[Len(m)] = 0 THEN Canon(SubSeq(m, 1, Len(m) - 1)) ELSE m

\* The magnitude written by a text of decimal digits.
MagOfText(s) == Canon([i \in 1..Len(s) |-> DigitVal(s[Len(s) + 1 - i])])

RECURSIVE MagOfInt(_)
MagOfInt(n) == IF n = 0 THEN <<>> ELSE <<n % 10>> \o MagOfInt(n \div 10)

RECURSIVE IntOfMag(_)
IntOfMag(m) == IF m = <<>> THEN 0 ELSE Head(m) + 10 * IntOfMag(Tail(m))

\* -1, 0 or 1 as a is below, equal to or above b.
CmpMag(a, b) ==
    IF Len(a) # Len(b) THEN (IF Len(a) < Len(b) THEN -1 ELSE 1)
    ELSE IF a = b THEN 0
    ELSE LET i == CHOOSE k \in 1..Len(a) :
                      a[k] # b[k] /\ \A j \in (k + 1)..Len(a) : a[j] = b[j]
         IN  IF a[i] < b[i] THEN -1 ELSE 1

RECURSIVE MulMag(_, _, _)
\* a * k + carry, for a small k.
MulMag(a, k, carry) ==
    IF a = <<>>
    THEN (IF carry = 0 THEN <<>> ELSE <<carry % 10>> \o MulMag(<<>>, k, carry \div 10))
    ELSE LET v == Head(a) * k + carry
         IN  <<v % 10>> \o MulMag(Tail(a), k, v \div 10)

RECURSIVE SubDigits(_, _, _)
SubDigits(a, b, borrow) ==
    IF a = <<>> THEN <<>>
    ELSE LET v == Head(a) - (IF b = <<>> THEN 0 ELSE Head(b)) - borrow
         IN  <<IF v < 0 THEN v + 10 ELSE v>>
                 \o SubDigits(Tail(a), IF b = <<>> THEN <<>> ELSE Tail(b),
                              IF v < 0 THEN 1 ELSE 0)

\* a - b, for a >= b.
SubMag(a, b) == Canon(SubDigits(a, b, 0))

\* 2^63 = 9223372036854775808 and 2^64.
Two63 ==
    MagOfText(<<"9", "2", "2", "3", "3", "7", "2", "0", "3", "6", "8", "5", "4", "7", "7", "5", "8", "0", "8">>)

Two64 == MulMag(Two63, 2, 0)

RECURSIVE WrapInt64(_)
\* The int that Go's arithmetic leaves of the non-negative result m: m modulo
\* 2^64, taken as a two's-complement number.
WrapInt64(m) ==
    IF CmpMag(m, Two64) >= 0 THEN WrapInt64(SubMag(m, Two64))
    ELSE IF CmpMag(m, Two63) >= 0 THEN Int64(TRUE, SubMag(Two64, m))
    ELSE Int64(FALSE, m)

\* strconv.Atoi of any string, as strconv.ParseInt(s, 10, 0) computes it: 0 on
\* a syntax error, and on a value out of range the nearest int with err set.
ParseInt(s) ==
    IF s = <<>> THEN [n |-> Int64(FALSE, <<>>), err |-> TRUE]
    ELSE LET digits == IF s[1] \in {"-", "+"} THEN Tail(s) ELSE s
             neg == s[1] = "-"
         IN  IF digits = <<>> \/ \E i \in 1..Len(digits) : ~IsDigit(digits[i])
             THEN [n |-> Int64(FALSE, <<>>), err |-> TRUE]
             ELSE LET mag == MagOfText(digits)
                  IN  IF ~neg /\ CmpMag(mag, Two63) >= 0
                      THEN [n |-> Int64(FALSE, SubMag(Two63, <<1>>)), err |-> TRUE]
                      ELSE IF neg /\ CmpMag(mag, Two63) > 0
                      THEN [n |-> Int64(TRUE, Two63), err |-> TRUE]
                      ELSE [n |-> Int64(neg /\ mag # <<>>, mag), err |-> FALSE]

\* page, _ := strconv.Atoi(...); if page < 1 { page = 1 }, in 64 bits.
PageOfInt64(p) ==
    LET n == ParseInt(p).n
    IN  IF n.neg \/ n.mag = <<>> THEN Int64(FALSE, <<1>>) ELSE n

\* offset := (page - 1) * limit in 64 bits, for page >= 1.
OffsetOfInt64(pg) == WrapInt64(MulMag(SubMag(pg.mag, <<1>>), limit, 0))

\* rows.Scan into an AuctionItem: converting NULL to int is an error.
ScanAuction(r) ==
    IF r.itemEntry = NULL \/ r.count = NULL
    THEN [err |-> TRUE]
    ELSE [err |-> FALSE,
          auction |-> [ID |-> r.id, ItemGUID |-> r.itemguid, ItemOwner |-> r.itemowner,
                       BuyoutPrice |-> r.buyoutprice, Time |-> r.time,
                       LastBid |-> r.lastbid, ItemEntry |-> r.itemEntry[1],
                       Count |-> r.count[1], OwnerName |-> r.owner_name,
                       ItemName |-> r.item_name, Quality |-> r.quality,
                       ItemLevel |-> r.item_level, TimeLeft |-> <<>>]]

\* The label with the last second left taken for none.
TimeLeftLabel_lastSecond(time, t) ==
    LET timeLeft == time - t
    IN  IF timeLeft > 1 THEN formatTimeLeft(timeLeft) ELSE Expired

\* timeLeft = auction.Time - int(time.Now().Unix()) and the label chosen from it.
TimeLeftLabel(time, t) ==
    LET timeLeft == time - t
    IN  IF timeLeft > 0 THEN formatTimeLeft(timeLeft) ELSE Expired

RECURSIVE ReadAuctions_break(_, _, _, _)
\* The row loop leaving at the first row whose Scan fails.
ReadAuctions_break(data, n, corrupt, t) ==
    IF n = 0 THEN <<>>
    ELSE LET before == ReadAuctions_break(data, n - 1, corrupt, t)
             scan == ScanAuction(data[n])
         IN  IF \E k \in 1..n : ScanAuction(data[k]).err \/ k \in corrupt THEN before
             ELSE Append(before,
                         [scan.auction EXCEPT
                             !.TimeLeft = TimeLeftLabel(scan.auction.Time, t)])

RECURSIVE ReadAuctions(_, _, _, _)
\* The row loop of handleGetAuctions and handleSearch over the first n rows of
\* data, read at time t: a row whose Scan fails is skipped.  corrupt holds the
\* rows whose Scan fails in the driver.
ReadAuctions(data, n, corrupt, t) ==
    IF n = 0 THEN <<>>
    ELSE LET before == ReadAuctions(data, n - 1, corrupt, t)
             scan == ScanAuction(data[n])
         IN  IF scan.err \/ n \in corrupt THEN before
             ELSE Append(before,
                         [scan.auction EXCEPT
                             !.TimeLeft = TimeLeftLabel(scan.auction.Time, t)])

RECURSIVE ReadSellers(_, _, _)
\* The row loop of handleGetSellers over the first n rows of data.
ReadSellers(data, n, corrupt) ==
    IF n = 0 THEN <<>>
    ELSE LET before == ReadSellers(data, n - 1, corrupt)
         IN  IF n \in corrupt THEN before
             ELSE Append(before,
                         [Name |-> data[n].seller_name,
                          TotalAuctions |-> data[n].total_auctions,
                          TotalValue |-> data[n].total_value,
                          UniqueItems |-> data[n].unique_items])

----------------------------------------------------------------------------
(* The handlers.  A handler runs from the request to its query in one      *)
(* step, and from the query's rows to the response in another; the clock   *)
(* may advance in between.                                                 *)

\* Faults are drawn among the first MaxFaultRows rows of a result.
MaxFaultRows == 2

\* The largest number of whole days left of an auction in a sorted table.
MaxDays == 2

\* The most fetches the page script issues.
MaxFetches == 4

\* The last page the script is taken to.
MaxPage == 3

NoRows == [data |-> <<>>, read |-> 0, err |-> FALSE, corrupt |-> {}]

NoStats ==
    [TotalItems |-> 0, TotalValue |-> 0, ActiveBids |-> 0, UniqueOwners |-> 0,
     UniqueItems |-> 0]

NoResp == [status |-> 0]

\* http.Error(w, ..., code): a status and a text body, no JSON.
HttpError(code) == [status |-> code]

\* What may go wrong while len rows are read: Next delivers n of them and the
\* stream then ends (err: with an error), and Scan fails in the driver on the
\* delivered rows in corrupt.
Faults(len) ==
    LET faulty == Min(len, MaxFaultRows)
    IN  UNION {[n : {k}, err : {TRUE}, corrupt : SUBSET (1..k)] :
                   k \in 0..Min(len - 1, MaxFaultRows)}
        \cup [n : {len}, err : BOOLEAN, corrupt : SUBSET (1..faulty)]

\* db.Query answered with rows.
Opened(data) == [data |-> data, read |-> 0, err |-> FALSE, corrupt |-> {}]

\* rows.Next has returned false.
Drained(f) == [rows EXCEPT !.read = f.n, !.err = f.err, !.corrupt = f.corrupt]

\* A query sent to the database: its text, its arguments, the database's clock
\* as it runs, and whether the database answers with an error.
Sent(name, args, failed) == [q |-> name, args |-> args, at |-> now, err |-> failed]

\* if searchTerm == "" without the test.
TermMissing_never(searchTerm) == FALSE

\* if searchTerm == ""
TermMissing(searchTerm) == searchTerm = <<>>

\* handleGetAuctions, lines 105-136: the page, the offset and db.Query, whose
\* ORDER BY puts the selected rows in the order ordered.
GetAuctions(p, dbErr, ordered) ==
    /\ boot = "serving"
    /\ pc = "idle"
    /\ handler' = "auctions"
    /\ param' = p
    /\ page' = PageOf(p)
    /\ LET offset == (page' - 1) * limit
           \* The server rejects a negative OFFSET.
           failed == dbErr \/ offset < 0
       IN  /\ queries' = <<Sent("auctions", <<limit, offset>>, failed)>>
           /\ IF failed
              THEN /\ rows' = NoRows
                   /\ resp' = HttpError(500)
                   /\ pc' = "done"
              ELSE /\ rows' = Opened(Select(LimitOffset(ordered, limit, offset)))
                   /\ resp' = NoResp
                   /\ pc' = "auctions_rows"
    /\ UNCHANGED <<tables, now, stats, seconds, label, server, client>>

\* handleGetAuctions, lines 105-136, with page and offset kept in 64 bits.
GetAuctionsInt64(p, dbErr, ordered) ==
    /\ boot = "serving"
    /\ pc = "idle"
    /\ handler' = "auctions"
    /\ param' = p
    /\ page' = PageOfInt64(p)
    /\ LET offset == OffsetOfInt64(page')
           \* The server rejects a negative OFFSET.
           failed == dbErr \/ offset.neg
       IN  /\ queries' = <<Sent("auctions", <<limit, offset>>, failed)>>
           /\ IF failed
              THEN /\ rows' = NoRows
                   /\ resp' = HttpError(500)
                   /\ pc' = "done"
              ELSE /\ rows' = Opened(Select(
                                IF CmpMag(offset.mag, MagOfInt(Len(ordered))) >= 0
                                THEN <<>>
                                ELSE LimitOffset(ordered, limit, IntOfMag(offset.mag))))
                   /\ resp' = NoResp
                   /\ pc' = "auctions_rows"
    /\ UNCHANGED <<tables, now, stats, seconds, label, server, client>>

\* handleGetAuctions, lines 138-170: the row loop and the response.
GetAuctionsRows(f) ==
    /\ pc = "auctions_rows"
    /\ rows' = Drained(f)
    /\ resp' = [status |-> 200,
                auctions |-> ReadAuctions(rows.data, f.n, f.corrupt, now),
                page |-> page,
                limit |-> limit]
    /\ pc' = "done"
    /\ UNCHANGED <<tables, now, handler, param, page, stats, queries, seconds, label, server, client>>

\* handleGetStats, lines 172-194: the primary query and its Scan.
GetStats(dbErr) ==
    /\ boot = "serving"
    /\ pc = "idle"
    /\ handler' = "stats"
    /\ queries' = <<Sent("stats", <<>>, dbErr)>>
    /\ IF dbErr \/ StatsRow.total_value = NULL
       THEN /\ stats' = NoStats
            /\ resp' = HttpError(500)
            /\ pc' = "done"
       ELSE /\ stats' = [TotalItems |-> StatsRow.total_items,
                         TotalValue |-> StatsRow.total_value[1],
                         ActiveBids |-> 0,
                         UniqueOwners |-> StatsRow.unique_owners,
                         UniqueItems |-> StatsRow.unique_items]
            /\ resp' = NoResp
            /\ pc' = "stats_bids"
    /\ UNCHANGED <<tables, now, param, page, rows, seconds, label, server, client>>

\* The bid count sent once more when it fails.
GetStatsBids_retries(dbErr) ==
    /\ pc = "stats_bids"
    /\ queries' = IF dbErr
                  THEN queries \o <<Sent("bids", <<>>, TRUE), Sent("bids", <<>>, FALSE)>>
                  ELSE Append(queries, Sent("bids", <<>>, FALSE))
    /\ stats' = [stats EXCEPT !.ActiveBids = BidCount]
    /\ resp' = [status |-> 200, stats |-> stats']
    /\ pc' = "done"
    /\ UNCHANGED <<now, handler, param, page, rows, seconds, label, server, client>>
    /\ UNCHANGED tables

\* The bid count with its failure answered 500.
GetStatsBids_errorIs500(dbErr) ==
    /\ pc = "stats_bids"
    /\ queries' = Append(queries, Sent("bids", <<>>, dbErr))
    /\ stats' = IF dbErr THEN stats ELSE [stats EXCEPT !.ActiveBids = BidCount]
    /\ resp' = IF dbErr THEN HttpError(500) ELSE [status |-> 200, stats |-> stats']
    /\ pc' = "done"
    /\ UNCHANGED <<tables, now, handler, param, page, rows, seconds, label, server, client>>

\* handleGetStats, lines 196-205: the bid count and the response.
GetStatsBids(dbErr) ==
    /\ pc = "stats_bids"
    /\ queries' = Append(queries, Sent("bids", <<>>, dbErr))
    /\ stats' = IF dbErr THEN stats ELSE [stats EXCEPT !.ActiveBids = BidCount]
    /\ resp' = [status |-> 200, stats |-> stats']
    /\ pc' = "done"
    /\ UNCHANGED <<tables, now, handler, param, page, rows, seconds, label, server, client>>

\* handleSearch, lines 207-239: the term, the pattern and db.Query.
Search(searchTerm, dbErr) ==
    /\ boot = "serving"
    /\ pc = "idle"
    /\ handler' = "search"
    /\ param' = searchTerm
    /\ IF TermMissing(searchTerm)
       THEN /\ queries' = <<>>
            /\ rows' = NoRows
            /\ resp' = HttpError(400)
            /\ pc' = "done"
       ELSE LET searchPattern == <<"%">> \o searchTerm \o <<"%">>
            IN  /\ queries' = <<Sent("search", <<searchPattern, searchPattern>>, dbErr)>>
                /\ IF dbErr
                   THEN /\ rows' = NoRows
                        /\ resp' = HttpError(500)
                        /\ pc' = "done"
                   ELSE /\ \E ordered \in OrderByTime(SearchWhere(searchPattern)) :
                             rows' = Opened(Select(LimitOffset(ordered, SearchLimit, 0)))
                        /\ resp' = NoResp
                        /\ pc' = "search_rows"
    /\ UNCHANGED <<tables, now, page, stats, seconds, label, server, client>>

\* handleSearch, lines 241-272: the row loop and the response.
SearchRows(f) ==
    /\ pc = "search_rows"
    /\ rows' = Drained(f)
    /\ resp' = [status |-> 200,
                auctions |-> ReadAuctions(rows.data, f.n, f.corrupt, now),
                search |-> param]
    /\ pc' = "done"
    /\ UNCHANGED <<tables, now, handler, param, page, stats, queries, seconds, label, server, client>>

\* handleGetSellers deleting the expired listings before its query.
GetSellers_prunes(dbErr) ==
    /\ boot = "serving"
    /\ pc = "idle"
    /\ handler' = "sellers"
    /\ queries' = <<Sent("sellers", <<>>, dbErr)>>
    /\ auctionhouse' = {ah \in auctionhouse : Live(ah)}
    /\ IF dbErr
       THEN /\ rows' = NoRows
            /\ resp' = HttpError(500)
            /\ pc' = "done"
       ELSE /\ \E ordered \in OrderSellers(SellersGroups) : rows' = Opened(ordered)
            /\ resp' = NoResp
            /\ pc' = "sellers_rows"
    /\ UNCHANGED <<item_instance, characters, item_template>>
    /\ UNCHANGED <<now, param, page, stats, seconds, label, server, client>>

\* handleGetSellers, lines 274-295: db.Query.
GetSellers(dbErr) ==
    /\ boot = "serving"
    /\ pc = "idle"
    /\ handler' = "sellers"
    /\ queries' = <<Sent("sellers", <<>>, dbErr)>>
    /\ IF dbErr
       THEN /\ rows' = NoRows
            /\ resp' = HttpError(500)
            /\ pc' = "done"
       ELSE /\ \E ordered \in OrderSellers(SellersGroups) : rows' = Opened(ordered)
            /\ resp' = NoResp
            /\ pc' = "sellers_rows"
    /\ UNCHANGED <<tables, now, param, page, stats, seconds, label, server, client>>

\* handleGetSellers, lines 304-324: the row loop and the response.
GetSellersRows(f) ==
    /\ pc = "sellers_rows"
    /\ rows' = Drained(f)
    /\ resp' = [status |-> 200, sellers |-> ReadSellers(rows.data, f.n, f.corrupt)]
    /\ pc' = "done"
    /\ UNCHANGED <<tables, now, handler, param, page, stats, queries, seconds, label, server, client>>

\* The handler has returned; the server takes the next request.
Return ==
    /\ pc = "done"
    /\ pc' = "idle"
    /\ handler' = "none"
    /\ param' = <<>>
    /\ page' = 0
    /\ rows' = NoRows
    /\ stats' = NoStats
    /\ resp' = NoResp
    /\ queries' = <<>>
    /\ UNCHANGED <<tables, now, seconds, label, server, client>>

\* A second passes.  Nothing reads the clock between the response and the
\* handler's return.
Tick ==
    /\ now < Now0 + MaxTicks
    /\ pc # "done"
    /\ now' = now + 1
    /\ UNCHANGED <<tables, request, seconds, label, server, client>>

\* The game server, which owns the tables, lists an auction: a row with no bid
\* yet and an expiry ahead, under the first identifier not in use.
AuctionListed(f) ==
    /\ pc # "done"
    /\ Cardinality(auctionhouse) < MaxListings
    /\ f.lastbid = 0
    /\ f.time > now
    /\ LET id == CHOOSE i \in 1..MaxListings :
                     /\ \A ah \in auctionhouse : ah.id # i
                     /\ \A j \in 1..(i - 1) : \E ah \in auctionhouse : ah.id = j
       IN  auctionhouse' = auctionhouse \cup {Listing(id, f)}
    /\ UNCHANGED <<item_instance, characters, item_template, now, request,
                   seconds, label, server, client>>

\* The game server records a bid on a listed auction.
BidPlaced(ah, bid) ==
    /\ pc # "done"
    /\ ah \in auctionhouse
    /\ ah.time > now
    /\ bid > ah.lastbid
    /\ auctionhouse' = (auctionhouse \ {ah}) \cup {[ah EXCEPT !.lastbid = bid]}
    /\ UNCHANGED <<item_instance, characters, item_template, now, request,
                   seconds, label, server, client>>

\* The game server removes an auction: bought out, cancelled, or expired and
\* settled.
AuctionRemoved(ah) ==
    /\ pc # "done"
    /\ ah \in auctionhouse
    /\ auctionhouse' = auctionhouse \ {ah}
    /\ UNCHANGED <<item_instance, characters, item_template, now, request,
                   seconds, label, server, client>>

----------------------------------------------------------------------------
(* main, and the requests handled side by side over the connection pool.   *)
(* Beside one another the requests are followed by position only: what a   *)
(* request holds of the pool and what it does next.                        *)

\* db.SetMaxOpenConns(25)
MaxOpenConns == 25

\* The positions of a request.  In the primary query of handleGetStats:
\* waiting for a connection (stats_wait), or holding one while the query runs
\* and its row is read (stats).  Between the two queries of handleGetStats
\* (stats_bids).  In the query after which the response is written, which is
\* the db.Query of handleGetAuctions, handleSearch and handleGetSellers and the
\* bid count of handleGetStats: waiting (query_wait) or holding (query).
\* Answered (done).
Positions == {"stats_wait", "stats", "stats_bids", "query_wait", "query", "done"}

Waiting == {"stats_wait", "query_wait"}

\* The position of a waiting request once it is given a connection.
Holding(w) == IF w = "stats_wait" THEN "stats" ELSE "query"

NoRequests == [p \in Positions |-> 0]

\* The requests accepted so far, and those of them not answered yet.
Accepted ==
    inflight["stats_wait"] + inflight["stats"] + inflight["stats_bids"]
        + inflight["query_wait"] + inflight["query"] + inflight["done"]

Pending == Accepted - inflight["done"]

Waiters == inflight["stats_wait"] + inflight["query_wait"]

Holders == inflight["stats"] + inflight["query"]

Arrive(f, to) == [f EXCEPT ![to] = @ + 1]

Leave(f, from) == [f EXCEPT ![from] = @ - 1]

\* The process at its start.
Started ==
    /\ boot = "open"
    /\ pinged = "no"
    /\ maxOpen = 0
    /\ numOpen = 0
    /\ inUse = 0
    /\ inflight = NoRequests

\* The process once http.ListenAndServe listens: Ping has left one idle
\* connection.
Serving ==
    /\ boot = "serving"
    /\ pinged = "ok"
    /\ maxOpen = MaxOpenConns
    /\ numOpen = 1
    /\ inUse = 0
    /\ inflight = NoRequests

\* What main leaves alone.
data == <<tables, now, request, seconds, label>>

\* sql.Open, lines 66-70.
Open(ok) ==
    /\ boot = "open"
    /\ boot' = IF ok THEN "ping" ELSE "exited"
    /\ UNCHANGED <<pinged, maxOpen, numOpen, inUse, inflight, data, client>>

\* db.Ping with its error logged only.
Ping_logsOnly(ok) ==
    /\ boot = "ping"
    /\ pinged' = IF ok THEN "ok" ELSE "failed"
    /\ numOpen' = IF ok THEN 1 ELSE 0
    /\ boot' = "pool"
    /\ UNCHANGED <<maxOpen, inUse, inflight, data, client>>

\* db.Ping, lines 73-75: log.Fatal ends the process.
Ping(ok) ==
    /\ boot = "ping"
    /\ pinged' = IF ok THEN "ok" ELSE "failed"
    /\ numOpen' = IF ok THEN 1 ELSE 0
    /\ boot' = IF ok THEN "pool" ELSE "exited"
    /\ UNCHANGED <<maxOpen, inUse, inflight, data, client>>

\* The pool settings without SetMaxOpenConns.
SetPool_unlimited ==
    /\ boot = "pool"
    /\ maxOpen' = 0
    /\ boot' = "listen"
    /\ UNCHANGED <<pinged, numOpen, inUse, inflight, data, client>>

\* db.SetMaxOpenConns, SetMaxIdleConns, SetConnMaxLifetime, lines 78-80.
SetPool ==
    /\ boot = "pool"
    /\ maxOpen' = MaxOpenConns
    /\ boot' = "listen"
    /\ UNCHANGED <<pinged, numOpen, inUse, inflight, data, client>>

\* http.ListenAndServe, lines 95-97: it returns only with an error, to log.Fatal.
ListenAndServe(ok) ==
    /\ boot = "listen"
    /\ boot' = IF ok THEN "serving" ELSE "exited"
    /\ UNCHANGED <<pinged, maxOpen, numOpen, inUse, inflight, data, client>>

\* The pool opens no further connection.
PoolFull == maxOpen > 0 /\ numOpen >= maxOpen

\* db.Query or QueryRow asks for a connection, the other requests being f: the
\* request takes an idle connection, or opens one, and goes to held; with the
\* pool full it goes to wait.
Acquire(f, wait, held) ==
    IF inUse < numOpen
    THEN /\ inUse' = inUse + 1
         /\ numOpen' = numOpen
         /\ inflight' = Arrive(f, held)
    ELSE IF ~PoolFull
    THEN /\ inUse' = inUse + 1
         /\ numOpen' = numOpen + 1
         /\ inflight' = Arrive(f, held)
    ELSE /\ UNCHANGED <<inUse, numOpen>>
         /\ inflight' = Arrive(f, wait)

\* The rows of the request at from are closed and it goes on to to: its
\* connection is handed to a waiting request if there is one, and is idle
\* otherwise.
Release(from, to) ==
    LET f == Arrive(Leave(inflight, from), to)
    IN  IF Waiters > 0
        THEN /\ \E w \in Waiting :
                  /\ inflight[w] > 0
                  /\ inflight' = Arrive(Leave(f, w), Holding(w))
             /\ UNCHANGED <<inUse, numOpen>>
        ELSE /\ inflight' = f
             /\ inUse' = inUse - 1
             /\ numOpen' = numOpen

Handlers == {"home", "auctions", "stats", "search", "sellers"}

\* A request is routed to handler h and runs up to its first query; noTerm: it
\* has no search term.  handleHome and a search without a term answer without
\* a query.
Serve(h, noTerm) ==
    /\ boot = "serving"
    /\ Accepted < MaxRequests
    /\ IF h = "home" \/ (h = "search" /\ noTerm)
       THEN /\ inflight' = Arrive(inflight, "done")
            /\ UNCHANGED <<inUse, numOpen>>
       ELSE IF h = "stats"
       THEN Acquire(inflight, "stats_wait", "stats")
       ELSE Acquire(inflight, "query_wait", "query")
    /\ UNCHANGED <<boot, pinged, maxOpen, data, client>>

\* handleGetAuctions, handleSearch, handleGetSellers: db.Query has failed, or
\* rows.Next has returned false and closed the rows; the response is written.
RowsRead ==
    /\ inflight["query"] > 0
    /\ Release("query", "done")
    /\ UNCHANGED <<boot, pinged, maxOpen, data, client>>

\* The first connection kept while the bid count asks for a second.
StatsScanned_keepsConn(ok) ==
    /\ inflight["stats"] > 0
    /\ inflight' = Arrive(Leave(inflight, "stats"), IF ok THEN "stats_bids" ELSE "done")
    /\ UNCHANGED <<inUse, numOpen>>
    /\ UNCHANGED <<boot, pinged, maxOpen, data, client>>

\* handleGetStats, lines 184-194: Scan has closed the row of the primary query;
\* on an error the response is written.
StatsScanned(ok) ==
    /\ inflight["stats"] > 0
    /\ Release("stats", IF ok THEN "stats_bids" ELSE "done")
    /\ UNCHANGED <<boot, pinged, maxOpen, data, client>>

\* handleGetStats, line 198: db.QueryRow(bidQuery).
BidsQuery ==
    /\ inflight["stats_bids"] > 0
    /\ Acquire(Leave(inflight, "stats_bids"), "query_wait", "query")
    /\ UNCHANGED <<boot, pinged, maxOpen, data, client>>

\* handleGetStats, lines 198-204: Scan has closed the row of the bid count and
\* the response is written.
BidsScanned ==
    /\ inflight["query"] > 0
    /\ Release("query", "done")
    /\ UNCHANGED <<boot, pinged, maxOpen, data, client>>

\* db.SetConnMaxLifetime: an idle connection past its lifetime is closed.
Expire ==
    /\ boot = "serving"
    /\ numOpen > inUse
    /\ numOpen' = numOpen - 1
    /\ UNCHANGED <<boot, pinged, maxOpen, inUse, inflight, data, client>>

----------------------------------------------------------------------------
(* The page script: the globals, the table and the pagination element, and *)
(* the helpers of the "Time Left" sort.                                    *)

\* JavaScript's undefined, the value of a local before its assignment.
Undefined == [undefined |-> TRUE]

\* JavaScript's NaN; a number n is <<n>>.
NaN == <<>>

\* A call that returned v, and a call that ended in an uncaught TypeError.
Returned(v) == [threw |-> FALSE, value |-> v]

TypeError == [threw |-> TRUE, value |-> NaN]

RECURSIVE Split(_, _)
\* String.prototype.split with a one-character separator.
Split(s, sep) ==
    IF \E i \in 1..Len(s) : s[i] = sep
    THEN LET i == CHOOSE k \in 1..Len(s) :
                      s[k] = sep /\ \A j \in 1..(k - 1) : s[j] # sep
         IN  <<SubSeq(s, 1, i - 1)>> \o Split(SubSeq(s, i + 1, Len(s)), sep)
    ELSE <<s>>

\* String.prototype.includes with a one-character argument.
Includes(s, ch) == \E i \in 1..Len(s) : s[i] = ch

\* The value of the longest prefix of decimal digits, NaN when it is empty.
DigitPrefix(s) ==
    LET n == CHOOSE k \in 0..Len(s) :
                 /\ \A j \in 1..k : IsDigit(s[j])
                 /\ k < Len(s) => ~IsDigit(s[k + 1])
    IN  IF n = 0 THEN NaN ELSE <<ParseDigits(SubSeq(s, 1, n))>>

RECURSIVE parseInt(_)
\* parseInt(string): leading white space skipped, an optional sign, then the
\* decimal digits up to the first other character.
parseInt(s) ==
    IF s # <<>> /\ s[1] = " " THEN parseInt(Tail(s))
    ELSE IF s # <<>> /\ s[1] \in {"-", "+"}
    THEN LET v == DigitPrefix(Tail(s))
         IN  IF v = NaN THEN NaN ELSE IF s[1] = "-" THEN <<-v[1]>> ELSE v
    ELSE DigitPrefix(s)

RECURSIVE parseTimeLeftToSeconds_loop(_, _, _)
\* The for loop of parseTimeLeftToSeconds at index i (counted from 1) with
\* the local seconds: parts[i + 1] past the end is undefined, and
\* undefined.includes is a TypeError.
parseTimeLeftToSeconds_loop(parts, i, secs) ==
    IF i > Len(parts) THEN Returned(secs)
    ELSE IF i + 1 > Len(parts) THEN TypeError
    ELSE LET value == parseInt(parts[i])
             unit == parts[i + 1]
             plus(k) == IF value = NaN \/ secs = NaN THEN NaN
                        ELSE <<secs[1] + value[1] * k>>
         IN  parseTimeLeftToSeconds_loop(parts, i + 2,
                 IF Includes(unit, "d") THEN plus(86400)
                 ELSE IF Includes(unit, "h") THEN plus(3600)
                 ELSE IF Includes(unit, "m") THEN plus(60)
                 ELSE secs)

parseTimeLeftToSeconds(timeLeft) ==
    IF timeLeft = Expired THEN Returned(<<-1>>)
    ELSE parseTimeLeftToSeconds_loop(Split(timeLeft, " "), 1, <<0>>)

\* The rows the table shows.
Loading == [row |-> "loading"]

ErrorRow == [row |-> "error"]

displayAuctions(auctions) == [row |-> "auctions", auctions |-> auctions]

\* The script's globals and the page's elements as the page is parsed.
NotLoaded ==
    /\ currentPage = 1
    /\ currentSearch = <<>>
    /\ currentAuctions = <<>>
    /\ auctionsBody = Loading
    /\ pagination = <<>>
    /\ interval = FALSE
    /\ fetches = <<>>
    /\ aVal = Undefined
    /\ bVal = Undefined

\* The auction of a response whose expiry is s seconds after the clock.
TimeLeftItem(s) == [time |-> now + s, time_left |-> TimeLeftLabel(now + s, now)]

\* A click on the "Time Left" header over a table of two auctions:
\* sortColumn becomes 'time_left' and sortAuctions runs its comparator on the
\* pair.  A TypeError leaves the handler before displayAuctions.
SortByTimeLeft ==
    /\ aVal = Undefined
    /\ Len(currentAuctions) = 2
    /\ LET a == currentAuctions[1]
           b == currentAuctions[2]
           av == parseTimeLeftToSeconds(a.time_left)
           bv == IF av.threw THEN Undefined ELSE parseTimeLeftToSeconds(b.time_left)
       IN  /\ aVal' = av
           /\ bVal' = bv
           /\ auctionsBody' =
                  IF av.threw \/ bv.threw THEN auctionsBody
                  ELSE IF av.value # NaN /\ bv.value # NaN /\ av.value[1] > bv.value[1]
                  THEN displayAuctions(<<b, a>>)
                  ELSE displayAuctions(currentAuctions)
    /\ UNCHANGED <<data, server, currentPage, currentSearch, currentAuctions,
                   pagination, interval, fetches>>

\* json.NewEncoder(w).Encode of an AuctionItem: the fields under their json
\* tags.
EncodeAuction(a) ==
    [id |-> a.ID, item_guid |-> a.ItemGUID, item_owner |-> a.ItemOwner,
     buyout_price |-> a.BuyoutPrice, time |-> a.Time, last_bid |-> a.LastBid,
     item_entry |-> a.ItemEntry, item_name |-> a.ItemName,
     owner_name |-> a.OwnerName, count |-> a.Count, quality |-> a.Quality,
     item_level |-> a.ItemLevel, time_left |-> a.TimeLeft]

\* The body of a 200 of the listing endpoint as response.json() gives it.  A
\* nil slice is encoded as null, which the script takes for no auctions.
EncodeListing(r) ==
    [auctions |-> [i \in 1..Len(r.auctions) |-> EncodeAuction(r.auctions[i])],
     page |-> r.page, limit |-> r.limit]

\* loadAuctions after its awaits, lines 815-817.  sortColumn is '' unless a
\* header was clicked, and the comparator then returns 0: the auctions are
\* displayed in the order received.
loadAuctions_then(body) ==
    /\ currentAuctions' = body.auctions
    /\ auctionsBody' = displayAuctions(body.auctions)
    /\ pagination' = <<body.page>>

\* loadAuctions' catch, lines 818-822: fetch rejected, or the body of an error
\* response is not JSON.
loadAuctions_catch ==
    /\ auctionsBody' = ErrorRow
    /\ UNCHANGED <<currentAuctions, pagination>>

\* searchAuctions after its awaits, lines 828-830.
searchAuctions_then(body) ==
    /\ currentAuctions' = body.auctions
    /\ auctionsBody' = displayAuctions(body.auctions)
    /\ pagination' = <<>>

\* searchAuctions' catch, lines 831-835.
searchAuctions_catch ==
    /\ auctionsBody' = ErrorRow
    /\ UNCHANGED <<currentAuctions, pagination>>

\* The page script receives the listing endpoint's answer to a fetch of
\* loadAuctions, and the handler returns.
DeliverAuctions ==
    /\ pc = "done"
    /\ handler = "auctions"
    /\ IF resp.status = 200 THEN loadAuctions_then(EncodeListing(resp))
       ELSE loadAuctions_catch
    /\ pc' = "idle"
    /\ handler' = "none"
    /\ param' = <<>>
    /\ page' = 0
    /\ rows' = NoRows
    /\ stats' = NoStats
    /\ resp' = NoResp
    /\ queries' = <<>>
    /\ UNCHANGED <<tables, now, seconds, label, server, currentPage, currentSearch,
                   interval, fetches, aVal, bVal>>

RECURSIVE Trim(_)
\* String.prototype.trim, of the white space drawn here: spaces.
Trim(s) ==
    IF s # <<>> /\ s[1] = " " THEN Trim(Tail(s))
    ELSE IF s # <<>> /\ s[Len(s)] = " " THEN Trim(SubSeq(s, 1, Len(s) - 1))
    ELSE s

\* A fetch the script has issued: '/api/auctions?page=' + arg, or
\* '/api/search?q=' + encodeURIComponent(arg), the server decoding the term it
\* is sent.  Its promise is pending, then fulfilled ("ok") or rejected.
Fetch(path, arg) == [path |-> path, arg |-> arg, state |-> "pending"]

\* The auctions of the server's answer to the k-th fetch, known here by the
\* request they answer.
ResultOf(k) == [fetch |-> k, path |-> fetches[k].path, arg |-> fetches[k].arg]

\* The body of the server's 200 to the k-th fetch: the listing endpoint reports
\* the page it parsed from the decimal text of currentPage.
BodyOf(k) ==
    IF fetches[k].path = "auctions"
    THEN [auctions |-> ResultOf(k), page |-> PageOf(FormatInt(fetches[k].arg)),
          limit |-> limit]
    ELSE [auctions |-> ResultOf(k), search |-> fetches[k].arg]

\* What the steps of the script that issue a fetch leave alone.
display == <<currentAuctions, auctionsBody, pagination, aVal, bVal>>

\* DOMContentLoaded, lines 725-734: loadAuctions() and setInterval.
\* loadStats() writes to the stats cards only.
DOMContentLoaded ==
    /\ ~interval
    /\ interval' = TRUE
    /\ fetches' = Append(fetches, Fetch("auctions", currentPage))
    /\ UNCHANGED <<data, server, currentPage, currentSearch, display>>

\* The 30 s timer fires, lines 730-733: loadAuctions().
AutoRefresh ==
    /\ interval
    /\ Len(fetches) < MaxFetches
    /\ fetches' = Append(fetches, Fetch("auctions", currentPage))
    /\ UNCHANGED <<data, server, currentPage, currentSearch, interval, display>>

\* A click on Refresh, line 654: loadAuctions().
RefreshClick ==
    /\ interval
    /\ Len(fetches) < MaxFetches
    /\ fetches' = Append(fetches, Fetch("auctions", currentPage))
    /\ UNCHANGED <<data, server, currentPage, currentSearch, interval, display>>

\* The search form is submitted with value in its input, lines 737-746.
SearchSubmit(value) ==
    /\ interval
    /\ Len(fetches) < MaxFetches
    /\ currentSearch' = Trim(value)
    /\ currentPage' = 1
    /\ fetches' = Append(fetches,
                         IF currentSearch' # <<>> THEN Fetch("search", currentSearch')
                         ELSE Fetch("auctions", currentPage'))
    /\ UNCHANGED <<data, server, interval, display>>

\* A click on Previous or Next, the buttons updatePagination has written
\* (lines 1018-1028), calling changePage (lines 1030-1033).
ChangePage(p) ==
    /\ interval
    /\ Len(fetches) < MaxFetches
    /\ pagination # <<>>
    /\ \/ p = pagination[1] + 1
       \/ pagination[1] > 1 /\ p = pagination[1] - 1
    /\ p <= MaxPage
    /\ currentPage' = p
    /\ fetches' = Append(fetches, Fetch("auctions", currentPage'))
    /\ UNCHANGED <<data, server, currentSearch, interval, display>>

\* The k-th fetch settles and the function that issued it runs on from its
\* await: with the body of a 200 when ok, else into its catch.
Settle(k, ok) ==
    /\ k \in 1..Len(fetches)
    /\ fetches[k].state = "pending"
    /\ fetches' = [fetches EXCEPT ![k].state = IF ok THEN "ok" ELSE "failed"]
    /\ IF fetches[k].path = "auctions"
       THEN (IF ok THEN loadAuctions_then(BodyOf(k)) ELSE loadAuctions_catch)
       ELSE (IF ok THEN searchAuctions_then(BodyOf(k)) ELSE searchAuctions_catch)
    /\ UNCHANGED <<data, server, currentPage, currentSearch, interval, aVal, bVal>>

----------------------------------------------------------------------------
(* Specifications.                                                         *)

Idle ==
    /\ pc = "idle"
    /\ handler = "none"
    /\ param = <<>>
    /\ page = 0
    /\ rows = NoRows
    /\ stats = NoStats
    /\ resp = NoResp
    /\ queries = <<>>

References ==
    /\ item_instance = ItemInstance0
    /\ characters = Characters0
    /\ item_template = ItemTemplate0

\* The page parameters of the requests to a small store.
PageParams == {<<>>, <<"2">>}

\* The search terms drawn.
SearchTerms == {<<>>, <<"a">>, <<"X">>}

NoTables ==
    /\ auctionhouse = {}
    /\ item_instance = <<>>
    /\ characters = <<>>
    /\ item_template = <<>>

NotFormatting ==
    /\ seconds = 0
    /\ label = <<>>

\* The server over every store of at most MaxListings listings.
Init ==
    /\ \E n \in 0..MaxListings : auctionhouse \in Stores(n)
    /\ References
    /\ now = Now0
    /\ Idle
    /\ NotLoaded
    /\ NotFormatting
    /\ Serving

handleGetAuctions ==
    /\ pc = "idle"
    /\ \E ordered \in OrderByTime(AuctionsWhere) :
           \E p \in PageParams, dbErr \in BOOLEAN : GetAuctions(p, dbErr, ordered)

handleGetAuctionsRows ==
    /\ pc = "auctions_rows"
    /\ \E f \in Faults(Len(rows.data)) : GetAuctionsRows(f)

handleGetStats == \E dbErr \in BOOLEAN : GetStats(dbErr)

handleGetStatsBids == \E dbErr \in BOOLEAN : GetStatsBids(dbErr)

handleSearch == \E q \in SearchTerms, dbErr \in BOOLEAN : Search(q, dbErr)

handleSearchRows ==
    /\ pc = "search_rows"
    /\ \E f \in Faults(Len(rows.data)) : SearchRows(f)

handleGetSellers == \E dbErr \in BOOLEAN : GetSellers(dbErr)

handleGetSellersRows ==
    /\ pc = "sellers_rows"
    /\ \E f \in Faults(Len(rows.data)) : GetSellersRows(f)

Next ==
    \/ handleGetAuctions
    \/ handleGetAuctionsRows
    \/ handleGetStats
    \/ handleGetStatsBids
    \/ handleSearch
    \/ handleSearchRows
    \/ handleGetSellers
    \/ handleGetSellersRows
    \/ Return
    \/ Tick

Spec == Init /\ [][Next]_vars

\* The stats endpoint alone, over the same stores.
NextStats ==
    \/ handleGetStats
    \/ handleGetStatsBids
    \/ Return
    \/ Tick

SpecStats == Init /\ [][NextStats]_vars

\* The search terms of the search endpoint alone: letters in either case, two
\* letters, and the characters LIKE reads as wildcards.
WideSearchTerms == {<<>>, <<"a">>, <<"X">>, <<"n", "N">>, <<"_">>, <<"%">>}

handleSearchWide == \E q \in WideSearchTerms, dbErr \in BOOLEAN : Search(q, dbErr)

\* The search endpoint alone, over the stores of Init.
NextSearch ==
    \/ handleSearchWide
    \/ handleSearchRows
    \/ Return
    \/ Tick

SpecSearch == Init /\ [][NextSearch]_vars

\* The seller rollup alone, over every store of at most MaxSellerListings
\* listings.
InitSellers ==
    /\ \E n \in 0..MaxSellerListings : auctionhouse \in SellerStores(n)
    /\ References
    /\ now = Now0
    /\ Idle
    /\ NotLoaded
    /\ NotFormatting
    /\ Serving

NextSellers ==
    \/ handleGetSellers
    \/ handleGetSellersRows
    \/ Return
    \/ Tick

SpecSellers == InitSellers /\ [][NextSellers]_vars

\* main and the requests side by side, by position.
InitPool ==
    /\ NoTables
    /\ now = Now0
    /\ Idle
    /\ NotLoaded
    /\ NotFormatting
    /\ Started

NextPool ==
    \/ \E ok \in BOOLEAN : Open(ok)
    \/ \E ok \in BOOLEAN : Ping(ok)
    \/ SetPool
    \/ \E ok \in BOOLEAN : ListenAndServe(ok)
    \/ \E h \in Handlers, noTerm \in BOOLEAN : Serve(h, noTerm)
    \/ RowsRead
    \/ \E ok \in BOOLEAN : StatsScanned(ok)
    \/ BidsQuery
    \/ BidsScanned
    \/ Expire

SpecPool == InitPool /\ [][NextPool]_vars

\* Every query completes and every handler goes on to its next step; requests
\* need not arrive.
FairPool ==
    /\ WF_vars(RowsRead)
    /\ WF_vars(\E ok \in BOOLEAN : StatsScanned(ok))
    /\ WF_vars(BidsQuery)
    /\ WF_vars(BidsScanned)

SpecPoolFair == InitPool /\ [][NextPool]_vars /\ FairPool

\* Every handler, over every store of at most MaxFew listings.
InitFew ==
    /\ \E n \in 0..MaxFew : auctionhouse \in Stores(n)
    /\ References
    /\ now = Now0
    /\ Idle
    /\ NotLoaded
    /\ NotFormatting
    /\ Serving

SpecFew == InitFew /\ [][Next]_vars

\* The stats endpoint while the game server writes to the store.
GameServer ==
    \/ \E f \in ListingFields : AuctionListed(f)
    \/ \E ah \in auctionhouse, bid \in Bids : BidPlaced(ah, bid)
    \/ \E ah \in auctionhouse : AuctionRemoved(ah)

NextLive ==
    \/ handleGetStats
    \/ handleGetStatsBids
    \/ Return
    \/ Tick
    \/ GameServer

SpecLive == InitFew /\ [][NextLive]_vars

\* The characters a page parameter is drawn from.
PageAlphabet == {"0", "1", "2", "-", "+", "x"}

RECURSIVE Strings(_, _)
\* The strings over alphabet of at most n characters.
Strings(alphabet, n) ==
    IF n = 0 THEN {<<>>}
    ELSE LET shorter == Strings(alphabet, n - 1)
         IN  shorter \cup {Append(t, ch) : t \in shorter, ch \in alphabet}

\* The sizes of the uniform stores: none, one, and around a page and the bound.
BulkSizes == {0, 1, limit - 1, limit, limit + 1, MaxBulk}

\* The server over stores of up to MaxBulk listings, with every page parameter
\* of at most MaxPageLen characters.
InitBulk ==
    /\ \E n \in BulkSizes : auctionhouse = BulkStore(n)
    /\ References
    /\ now = Now0
    /\ Idle
    /\ NotLoaded
    /\ NotFormatting
    /\ Serving

handleGetAuctionsPage ==
    /\ pc = "idle"
    /\ \E ordered \in OrderByTime(AuctionsWhere) :
           \E p \in Strings(PageAlphabet, MaxPageLen), dbErr \in BOOLEAN :
               GetAuctions(p, dbErr, ordered)

NextBulk ==
    \/ handleGetAuctionsPage
    \/ handleGetAuctionsRows
    \/ handleSearch
    \/ handleSearchRows
    \/ handleGetSellers
    \/ handleGetSellersRows
    \/ Return
    \/ Tick

SpecBulk == InitBulk /\ [][NextBulk]_vars

\* Page parameters up to twenty digits: pages 1 and 2, a letter, the pages on
\* either side of (page - 1) * 50 passing 2^63 and passing 2^64, the largest
\* int, and values beyond it on either side.
Int64Pages ==
    {<<"1">>,
     <<"2">>,
     <<"x">>,
     <<"1", "8", "4", "4", "6", "7", "4", "4", "0", "7", "3", "7", "0", "9", "5", "5", "1", "7">>,
     <<"1", "8", "4", "4", "6", "7", "4", "4", "0", "7", "3", "7", "0", "9", "5", "5", "1", "8">>,
     <<"3", "6", "8", "9", "3", "4", "8", "8", "1", "4", "7", "4", "1", "9", "1", "0", "3", "3">>,
     <<"3", "6", "8", "9", "3", "4", "8", "8", "1", "4", "7", "4", "1", "9", "1", "0", "3", "4">>,
     <<"3", "6", "8", "9", "3", "4", "8", "8", "1", "4", "7", "4", "1", "9", "1", "0", "3", "5">>,
     <<"9", "2", "2", "3", "3", "7", "2", "0", "3", "6", "8", "5", "4", "7", "7", "5", "8", "0", "7">>,
     <<"9", "2", "2", "3", "3", "7", "2", "0", "3", "6", "8", "5", "4", "7", "7", "5", "8", "0", "8">>,
     <<"9", "9", "9", "9", "9", "9", "9", "9", "9", "9", "9", "9", "9", "9", "9", "9", "9", "9", "9", "9">>,
     <<"-", "9", "2", "2", "3", "3", "7", "2", "0", "3", "6", "8", "5", "4", "7", "7", "5", "8", "0", "9">>}

handleGetAuctionsInt64 ==
    /\ pc = "idle"
    /\ \E ordered \in OrderByTime(AuctionsWhere) :
           \E p \in Int64Pages, dbErr \in BOOLEAN : GetAuctionsInt64(p, dbErr, ordered)

\* The listing endpoint alone, its arithmetic in 64 bits.
NextInt64 ==
    \/ handleGetAuctionsInt64
    \/ handleGetAuctionsRows
    \/ Return

SpecInt64 == InitBulk /\ [][NextInt64]_vars

\* The store of n listings expiring one second apart, but that listings limit
\* and limit + 1 expire together: the first page ends between two listings of
\* equal expiry.
PagedStore(n) ==
    {[id |-> i, itemguid |-> 1, itemowner |-> 1 + (i % 2), buyoutprice |-> 5,
      time |-> IF i <= limit THEN Now0 + i ELSE Now0 + i - 1, lastbid |-> 0] :
        i \in 1..n}

\* The listing endpoint alone, over stores of more than a page.
InitPages ==
    /\ \E n \in (limit + 1)..MaxBulk : auctionhouse = PagedStore(n)
    /\ References
    /\ now = Now0
    /\ Idle
    /\ NotLoaded
    /\ NotFormatting
    /\ Serving

\* The page parameters of the requests to a store of more than a page.
Pages == {<<>>, <<"1">>, <<"2">>, <<"3">>}

handleGetAuctionsPages ==
    /\ pc = "idle"
    /\ \E ordered \in OrderByTime(AuctionsWhere) :
           \E p \in Pages, dbErr \in BOOLEAN : GetAuctions(p, dbErr, ordered)

NextPages ==
    \/ handleGetAuctionsPages
    \/ handleGetAuctionsRows
    \/ Return
    \/ Tick

SpecPages == InitPages /\ [][NextPages]_vars

\* The row loop with every row delivered and decoded.
handleGetAuctionsRowsDecoded ==
    /\ pc = "auctions_rows"
    /\ GetAuctionsRows([n |-> Len(rows.data), err |-> FALSE, corrupt |-> {}])

\* The page script fetching page after page of a store of more than a page,
\* the store unchanged and the clock fixed.
NextBrowse ==
    \/ handleGetAuctionsPages
    \/ handleGetAuctionsRowsDecoded
    \/ DeliverAuctions

SpecBrowse == InitPages /\ [][NextBrowse]_vars

\* formatTimeLeft over every argument from -MinSeconds to MaxSeconds.
InitFmt ==
    /\ NoTables
    /\ now = Now0
    /\ Idle
    /\ NotLoaded
    /\ seconds \in (-MinSeconds)..MaxSeconds
    /\ label = <<>>
    /\ Serving

FormatTimeLeft ==
    /\ label = <<>>
    /\ label' = formatTimeLeft(seconds)
    /\ UNCHANGED <<tables, now, request, seconds, server, client>>

NextFmt == FormatTimeLeft

SpecFmt == InitFmt /\ [][NextFmt]_vars

\* The seconds left of the auctions in a sorted table: around every boundary
\* of formatTimeLeft, up to MaxDays days.
SortSeconds ==
    {-1, 0} \cup {((d * 24 + h) * 60 + m) * 60 + r :
                     d \in 0..MaxDays, h \in {0, 1, 23}, m \in {0, 1, 59}, r \in {0, 1, 59}}

\* The table showing two auctions of a response, in the order received.
InitSort ==
    /\ NoTables
    /\ now = Now0
    /\ Idle
    /\ NotFormatting
    /\ Serving
    /\ currentPage = 1
    /\ currentSearch = <<>>
    /\ \E s1, s2 \in SortSeconds : currentAuctions = <<TimeLeftItem(s1), TimeLeftItem(s2)>>
    /\ auctionsBody = displayAuctions(currentAuctions)
    /\ pagination = <<1>>
    /\ interval = TRUE
    /\ fetches = <<>>
    /\ aVal = Undefined
    /\ bVal = Undefined

NextSort == SortByTimeLeft

SpecSort == InitSort /\ [][NextSort]_vars

\* The values of the search input.
SearchInputs == {<<>>, <<" ">>, <<"a">>, <<" ", "b">>}

\* The page script from the parsing of the page on, the server behind it
\* answering every fetch or failing it, in any order.
InitScript ==
    /\ NoTables
    /\ now = Now0
    /\ Idle
    /\ NotLoaded
    /\ NotFormatting
    /\ Serving

NextScript ==
    \/ DOMContentLoaded
    \/ AutoRefresh
    \/ RefreshClick
    \/ \E value \in SearchInputs : SearchSubmit(value)
    \/ \E p \in 1..MaxPage : ChangePage(p)
    \/ \E k \in 1..MaxFetches, ok \in BOOLEAN : Settle(k, ok)

SpecScript == InitScript /\ [][NextScript]_vars

----------------------------------------------------------------------------
(* The claims.                                                             *)

\* The request has been answered by handler h.
Answered(h) == pc = "done" /\ handler = h

\* The identifiers of the listings in the response.
ReturnedIds == {resp.auctions[i].ID : i \in 1..Len(resp.auctions)}

\* The listings whose expiry is after t.
NotExpiredAt(t) == {ah \in auctionhouse : ah.time > t}

\* The item entries of the listings of S whose item has a row in item_instance.
EntriesOf(S) ==
    {item_instance[ah.itemguid].itemEntry :
        ah \in {x \in S : x.itemguid \in DOMAIN item_instance}}

\* C1: a listing whose expiry is at or before the database's clock when the
\* query runs is not returned by the listing endpoint or the search endpoint,
\* and no field of the stats response counts it: each field is the aggregate
\* over the listings that expire after the clock of the query that computes it.
C1_NoExpiredListing ==
    /\ (pc = "done" /\ handler \in {"auctions", "search"} /\ resp.status = 200) =>
           \A ah \in auctionhouse : ah.time <= queries[1].at => ah.id \notin ReturnedIds
    /\ (Answered("stats") /\ resp.status = 200) =>
           LET S == NotExpiredAt(queries[1].at)
           IN  /\ resp.stats.TotalItems = Cardinality(S)
               /\ resp.stats.TotalValue = SUM(S)
               /\ resp.stats.UniqueOwners = Cardinality({ah.itemowner : ah \in S})
               /\ resp.stats.UniqueItems = Cardinality(EntriesOf(S))
               /\ resp.stats.ActiveBids <=
                      Cardinality({ah \in NotExpiredAt(queries[2].at) : ah.lastbid > 0})

\* C1's case: the listing endpoint answers with a listing while the store holds
\* a listing, of a decodable row, that expires exactly at the clock of the query.
C1_Witness ==
    /\ Answered("auctions")
    /\ resp.status = 200
    /\ resp.auctions # <<>>
    /\ \E ah \in auctionhouse :
           ah.time = queries[1].at /\ ah.itemguid \in DOMAIN item_instance

\* C2: a response of the listing endpoint holds at most 50 listings, whatever
\* the page (which is at least 1) and the store.
C2_AtMostPageSize ==
    (Answered("auctions") /\ resp.status = 200) =>
        page >= 1 /\ Len(resp.auctions) <= 50

\* C2's case: a response of exactly 50 listings from a store of more than 50
\* live listings.
C2_Witness ==
    /\ Answered("auctions")
    /\ resp.status = 200
    /\ Len(resp.auctions) = 50
    /\ Cardinality(NotExpiredAt(queries[1].at)) > 50

\* s is one or more decimal digits.
AllDigits(s) == s # <<>> /\ \A i \in 1..Len(s) : IsDigit(s[i])

\* p is a decimal number, with or without a sign.
Numeric(p) ==
    AllDigits(p) \/ (p # <<>> /\ p[1] \in {"-", "+"} /\ AllDigits(Tail(p)))

\* p is a decimal number that is zero or negative.
ZeroOrNegative(p) ==
    /\ Numeric(p)
    /\ \/ p[1] = "-"
       \/ \A i \in 1..Len(p) : p[i] \in {"0", "+"}

C4_EmptyTermRejected ==
    (handler = "search" /\ param = <<>>) =>
        /\ queries = <<>>
        /\ pc = "done" /\ resp.status = 400

\* C4's case: a search with no term against a store that is not empty.
C4_Witness ==
    /\ Answered("search")
    /\ param = <<>>
    /\ auctionhouse # {}

\* C5: formatTimeLeft(s) is "Expired" for s <= 0, "<d>d <h>h" from a day on,
\* "<h>h <m>m" from an hour on and "<m>m" below, with d = s div 86400,
\* h = (s mod 86400) div 3600 and m = (s mod 3600) div 60; 90000 gives "1d 1h",
\* 5000 gives "1h 23m" and 120 gives "2m".
C5_FormatTimeLeft ==
    label # <<>> =>
        LET d == seconds \div 86400
            h == (seconds % 86400) \div 3600
            m == (seconds % 3600) \div 60
        IN  /\ seconds <= 0 => label = Expired
            /\ seconds >= 86400 =>
                   label = FormatInt(d) \o <<"d", " ">> \o FormatInt(h) \o <<"h">>
            /\ (3600 <= seconds /\ seconds < 86400) =>
                   label = FormatInt(h) \o <<"h", " ">> \o FormatInt(m) \o <<"m">>
            /\ (0 < seconds /\ seconds < 3600) => label = FormatInt(m) \o <<"m">>
            /\ seconds = 90000 => label = <<"1", "d", " ", "1", "h">>
            /\ seconds = 5000 => label = <<"1", "h", " ", "2", "3", "m">>
            /\ seconds = 120 => label = <<"2", "m">>

\* C5's case: 90000 seconds formatted.
C5_Witness == seconds = 90000 /\ label = <<"1", "d", " ", "1", "h">>

\* C6: total_items of a successful stats response is the number of listings
\* whose expiry is after the clock of the primary stats query.
C6_TotalItemsIsLiveCount ==
    (Answered("stats") /\ resp.status = 200) =>
        resp.stats.TotalItems =
            Cardinality({ah \in auctionhouse : ah.time > queries[1].at})

\* C6's case: stats answered from a store with an expired listing and a live
\* one whose item has no row in item_instance.
C6_Witness ==
    /\ Answered("stats")
    /\ resp.status = 200
    /\ \E ah \in auctionhouse : ah.time <= queries[1].at
    /\ \E ah \in auctionhouse :
           ah.time > queries[1].at /\ ah.itemguid \notin DOMAIN item_instance

\* C7: every listing the listing query returns is in the response, with
\* "Unknown", "Unknown Item", quality 0 and item level 0 in place of what its
\* owner, item instance or item template would have given; stated of the
\* requests in which no read of the rows fails and no Scan fails in the driver.
C7_MissingReferencesKept ==
    (Answered("auctions") /\ resp.status = 200 /\ ~rows.err
        /\ rows.read = Len(rows.data) /\ rows.corrupt = {}) =>
        \A ah \in auctionhouse :
            (\E k \in 1..Len(rows.data) : rows.data[k].id = ah.id) =>
                \E i \in 1..Len(resp.auctions) :
                    LET a == resp.auctions[i]
                        templated ==
                            /\ ah.itemguid \in DOMAIN item_instance
                            /\ item_instance[ah.itemguid].itemEntry \in DOMAIN item_template
                    IN  /\ a.ID = ah.id
                        /\ ah.itemowner \notin DOMAIN characters => a.OwnerName = Unknown
                        /\ ~templated =>
                               /\ a.ItemName = UnknownItem
                               /\ a.Quality = 0
                               /\ a.ItemLevel = 0

\* C8: a listing, search or seller request during which the database fails,
\* in the query or after rows of it have been read, is answered 500, with none
\* of the rows; a 200 response carries every row of the query's result.
C8_DatabaseErrorIs500 ==
    (pc = "done" /\ handler \in {"auctions", "search", "sellers"} /\ queries # <<>>) =>
        /\ queries[1].err => resp.status = 500
        /\ (rows.err /\ rows.read >= 1) => resp.status = 500
        /\ resp.status = 200 => rows.read = Len(rows.data)

\* C9: in the stats endpoint, a failure of the bid count after the primary
\* query succeeded gives a 200 with the primary aggregates and active_bids 0; a
\* failure of the primary query gives a 500, and the bid count is not sent.
C9_BidCountFailureTolerated ==
    Answered("stats") =>
        /\ queries[1].err => resp.status = 500 /\ Len(queries) = 1
        /\ (Len(queries) = 2 /\ queries[2].err) =>
               LET S == NotExpiredAt(queries[1].at)
               IN  /\ ~queries[1].err
                   /\ resp.status = 200
                   /\ resp.stats = [TotalItems |-> Cardinality(S),
                                    TotalValue |-> SUM(S),
                                    ActiveBids |-> 0,
                                    UniqueOwners |-> Cardinality({ah.itemowner : ah \in S}),
                                    UniqueItems |-> Cardinality(EntriesOf(S))]

\* C9's case: the bid count fails while a live listing has a bid.
C9_Witness ==
    /\ Answered("stats")
    /\ Len(queries) = 2
    /\ queries[2].err
    /\ \E ah \in auctionhouse : ah.time > queries[2].at /\ ah.lastbid > 0

\* Row k of the result was delivered and its Scan succeeded.
Decoded(k) ==
    /\ k <= rows.read
    /\ k \notin rows.corrupt
    /\ handler \in {"auctions", "search"} =>
           rows.data[k].itemEntry # NULL /\ rows.data[k].count # NULL

\* What identifies a row of the result, and an element of the response.
RowKey(r) == IF handler = "sellers" THEN r.seller_name ELSE r.id

Responded ==
    IF handler = "sellers"
    THEN [i \in 1..Len(resp.sellers) |-> resp.sellers[i].Name]
    ELSE [i \in 1..Len(resp.auctions) |-> resp.auctions[i].ID]

\* C10: a listing, search or seller request whose query succeeded is answered
\* 200 with the rows that were delivered and decoded, in the order of the
\* result: a row whose decoding fails is left out, and no other row is.
C10_OnlyFailedRowsOmitted ==
    (pc = "done" /\ handler \in {"auctions", "search", "sellers"}
        /\ queries # <<>> /\ ~queries[1].err) =>
        LET kept == SelectSeq([k \in 1..Len(rows.data) |-> k], LAMBDA k : Decoded(k))
        IN  /\ resp.status = 200
            /\ Responded = [i \in 1..Len(kept) |-> RowKey(rows.data[kept[i]])]

\* C10's case: of a listing result of at least three rows, all delivered, the
\* second alone fails to decode.
C10_Witness ==
    /\ Answered("auctions")
    /\ resp.status = 200
    /\ Len(rows.data) >= 3
    /\ rows.read = Len(rows.data)
    /\ rows.corrupt = {2}
    /\ Len(resp.auctions) = Len(rows.data) - 1

RECURSIVE SumTotalAuctions(_)
\* The sum of total_auctions over the sellers of s.
SumTotalAuctions(s) ==
    IF s = <<>> THEN 0 ELSE s[1].TotalAuctions + SumTotalAuctions(Tail(s))

\* The listings live at t whose owner has a row in characters.
NamedAt(t) == {ah \in NotExpiredAt(t) : ah.itemowner \in DOMAIN characters}

\* C11: the seller rollup holds no entry for an owner without a character
\* name, counts for no seller more than that owner's live listings, and the
\* total_auctions of the returned sellers add up to the number of live listings
\* whose owner resolves.
C11_SellersCoverNamedListings ==
    (Answered("sellers") /\ resp.status = 200) =>
        /\ \A i \in 1..Len(resp.sellers) :
               \E o \in DOMAIN characters :
                   /\ resp.sellers[i].Name = characters[o]
                   /\ resp.sellers[i].TotalAuctions =
                          Cardinality({ah \in NamedAt(queries[1].at) : ah.itemowner = o})
        /\ SumTotalAuctions(resp.sellers) = Cardinality(NamedAt(queries[1].at))

\* C14: the sellers of a response are in descending order of listing count,
\* and those of equal listing count in descending order of total buyout value.
C14_SellersOrdered ==
    (Answered("sellers") /\ resp.status = 200) =>
        \A i \in 1..Len(resp.sellers), j \in 1..Len(resp.sellers) :
            i < j =>
                \/ resp.sellers[i].TotalAuctions > resp.sellers[j].TotalAuctions
                \/ /\ resp.sellers[i].TotalAuctions = resp.sellers[j].TotalAuctions
                   /\ resp.sellers[i].TotalValue >= resp.sellers[j].TotalValue

\* C14's case: two sellers of equal listing count, the second owner first for
\* the greater value, from a store that also holds an unresolved owner's listing.
C14_Witness ==
    /\ Answered("sellers")
    /\ resp.status = 200
    /\ Len(resp.sellers) = 2
    /\ resp.sellers[1].Name = characters[2]
    /\ resp.sellers[1].TotalAuctions = resp.sellers[2].TotalAuctions
    /\ resp.sellers[1].TotalValue > resp.sellers[2].TotalValue
    /\ \E ah \in NotExpiredAt(queries[1].at) : ah.itemowner \notin DOMAIN characters

\* text holds term as a substring, letters compared without regard to case.
Contains(text, term) ==
    \E i \in 1..(Len(text) - Len(term) + 1) :
        \A k \in 1..Len(term) : Fold(text[i + k - 1]) = Fold(term[k])

\* The listings live at t whose item name or owner name resolves and holds term.
Matching(term, t) ==
    {ah \in NotExpiredAt(t) :
        \/ /\ SelectRow(ah).it_name # NULL
           /\ Contains(SelectRow(ah).it_name[1], term)
        \/ /\ SelectRow(ah).c_name # NULL
           /\ Contains(SelectRow(ah).c_name[1], term)}

\* C12: a search for a term answers with exactly the live listings whose
\* resolved item name or resolved owner name holds the term as a substring,
\* whatever the case of the letters, in ascending order of expiry and at most
\* 100 of them.  Stated of the responses whose rows were all read and all
\* decoded, over results whose every row decodes.
C12_SearchIsSubstringMatch ==
    (/\ Answered("search")
     /\ resp.status = 200
     /\ ~rows.err
     /\ rows.corrupt = {}
     /\ \A ah \in auctionhouse : ah.itemguid \in DOMAIN item_instance) =>
        LET expected == Matching(param, queries[1].at)
        IN  /\ Len(resp.auctions) = Min(Cardinality(expected), 100)
            /\ ReturnedIds \subseteq {ah.id : ah \in expected}
            /\ \A i \in 1..Len(resp.auctions), j \in 1..Len(resp.auctions) :
                   i < j => resp.auctions[i].Time <= resp.auctions[j].Time

\* The expiries of the rows the listing query gives for page p of the listings
\* live at t, in any of the orders ORDER BY allows.
PageTimes(p, t) ==
    UNION {{r.time : r \in {o[i] : i \in (p - 1) * limit + 1 .. Min(Len(o), p * limit)}} :
              o \in OrderByTime(NotExpiredAt(t))}

\* C13: the listings of a response of the listing endpoint are in
\* non-decreasing order of expiry, and each of them expires no later than every
\* listing of the next page of the same store at the same clock.
C13_OrderedByExpiry ==
    (Answered("auctions") /\ resp.status = 200) =>
        /\ \A i \in 1..Len(resp.auctions), j \in 1..Len(resp.auctions) :
               i < j => resp.auctions[i].Time <= resp.auctions[j].Time
        /\ \A i \in 1..Len(resp.auctions) :
               \A t \in PageTimes(page + 1, queries[1].at) : resp.auctions[i].Time <= t

\* C13's case: a full first page whose last listing expires together with a
\* listing left to the second page.
C13_Witness ==
    /\ Answered("auctions")
    /\ resp.status = 200
    /\ page = 1
    /\ Len(resp.auctions) = limit
    /\ resp.auctions[limit].Time \in PageTimes(2, queries[1].at)

\* C15: no step of any handler, whether its request succeeds or fails, changes
\* the auction, item-instance, character or item-template table.
C15_NoWrites == [][UNCHANGED tables]_vars

\* C15's case: a request has failed over a store that holds a listing.
C15_Witness ==
    /\ pc = "done"
    /\ resp.status = 500
    /\ auctionhouse # {}

\* C16: when db.Ping fails the process has exited and no request is ever
\* accepted, and a request is accepted only by a process whose db.Ping
\* succeeded.
C16_NoServingBeforePing ==
    /\ pinged = "failed" => (boot = "exited" /\ Accepted = 0)
    /\ Accepted > 0 => pinged = "ok"
    /\ boot \in {"listen", "serving"} => pinged = "ok"

\* C16's case: db.Ping has failed.
C16_Witness ==
    /\ pinged = "failed"
    /\ boot = "exited"

\* C17: while requests are served at most 25 connections are open, each
\* request in a query holds one of them, a request waits only while all 25 are
\* in use, and the requests holding a connection grow in number only when
\* fewer than 25 are in use.
C17_AtMost25Connections ==
    /\ [](/\ numOpen <= 25
          /\ inUse <= numOpen
          /\ Holders = inUse
          /\ Waiters > 0 => inUse = 25)
    /\ [][Holders' > Holders => inUse < 25]_vars

\* C17's case: 25 connections in use and a further request waiting for one.
C17_Witness ==
    /\ inUse = 25
    /\ Waiters >= 1

\* C19: when every query completes, the requests accepted are all answered in
\* the end, each once: an answered request stays answered and no request is
\* lost.  No requests deadlock on the pool: a request holds a connection only
\* inside a query, where it waits for no other, and while a request waits for
\* a connection such a request holds one.
C19_EveryRequestAnswered ==
    /\ (Pending > 0) ~> (Pending = 0)
    /\ [](inUse = Holders /\ (Waiters > 0 => Holders > 0))
    /\ [][/\ inflight["done"]' >= inflight["done"]
          /\ Accepted' >= Accepted]_vars

\* C19's case: more requests in flight than the pool has connections, all of
\* them unanswered and one waiting for a connection.
C19_Witness ==
    /\ Pending > MaxOpenConns
    /\ inflight["done"] = 0
    /\ inflight["query_wait"] + inflight["stats_wait"] > 0

\* C20: a listing, search or seller request sends at most one query and a
\* stats request at most two, the primary query and then the bid count; no
\* query is sent twice, and none after the primary query failed.
C20_NoRetry ==
    /\ handler \in {"auctions", "search", "sellers"} => Len(queries) <= 1
    /\ handler = "stats" => Len(queries) <= 2
    /\ \A i \in 1..Len(queries), j \in 1..Len(queries) :
           i < j => queries[i].q # queries[j].q
    /\ (queries # <<>> /\ queries[1].err) => Len(queries) = 1

\* C20's case: the bid count of a stats request has failed and the request is
\* answered.
C20_Witness ==
    /\ Answered("stats")
    /\ Len(queries) = 2
    /\ queries[2].err

\* The seconds left of the k-th auction of the sorted table.
SecondsLeft(k) == currentAuctions[k].time - now

\* C21: parseTimeLeftToSeconds completes without error on every label that
\* formatTimeLeft produces; for 0 < s1 <= s2 the key parsed from the label of
\* s1 is at most the key parsed from the label of s2; and the key of
\* "Expired" is below the key of every other label.
C21_SortKeyFollowsTimeLeft ==
    aVal # Undefined =>
        /\ ~aVal.threw
        /\ ~bVal.threw
        /\ aVal.value # NaN
        /\ bVal.value # NaN
        /\ (0 < SecondsLeft(1) /\ SecondsLeft(1) <= SecondsLeft(2)) =>
               aVal.value[1] <= bVal.value[1]
        /\ (SecondsLeft(1) <= 0 /\ 0 < SecondsLeft(2)) =>
               aVal.value[1] < bVal.value[1]

\* C22: whenever the database executes the primary stats query without error,
\* the stats endpoint answers 200 with the aggregates; when no listing is live
\* all five aggregates are 0.
C22_StatsAnsweredWhenQueryRuns ==
    (Answered("stats") /\ ~queries[1].err) =>
        /\ resp.status = 200
        /\ NotExpiredAt(queries[1].at) = {} =>
               resp.stats = [TotalItems |-> 0, TotalValue |-> 0, ActiveBids |-> 0,
                             UniqueOwners |-> 0, UniqueItems |-> 0]

\* C23: in every successful stats response active_bids is at most
\* total_items, also when the game server writes to the store or the clock
\* advances between the primary query and the bid count.
C23_BidsWithinTotal ==
    (Answered("stats") /\ resp.status = 200) =>
        resp.stats.ActiveBids <= resp.stats.TotalItems

\* The listing endpoint or the search endpoint has answered with listings.
Listed == pc = "done" /\ handler \in {"auctions", "search"} /\ resp.status = 200

\* C24 as claimed: no listing of a response of the listing endpoint or the
\* search endpoint carries the label "Expired".
C24_NoExpiredLabel ==
    Listed => \A i \in 1..Len(resp.auctions) : resp.auctions[i].TimeLeft # Expired

\* C24: a listing of a response of the listing endpoint or the search endpoint
\* expires after the database's clock at the query, and carries the label
\* "Expired" exactly when its expiry is at or before the server's clock when its
\* row is read; any other label is of a strictly positive remaining time.
C24_ExpiredLabelOnlyPastExpiry ==
    Listed =>
        \A i \in 1..Len(resp.auctions) :
            /\ resp.auctions[i].Time > queries[1].at
            /\ resp.auctions[i].TimeLeft = Expired <=> resp.auctions[i].Time <= now

\* C24's case: a response holding a listing that expired between the query and
\* the reading of its row.
C24_Witness ==
    /\ Listed
    /\ \E i \in 1..Len(resp.auctions) :
           /\ resp.auctions[i].TimeLeft = Expired
           /\ resp.auctions[i].Time = now
           /\ queries[1].at < now

\* The identifiers of the listings of a response body.
IdsOf(auctions) == {auctions[i].id : i \in 1..Len(auctions)}

\* C25: with the store unchanged, the clock fixed and every row decoded, the
\* listings of two distinct pages are disjoint and each page holds a listing
\* once; pages 1 and 2 of a store of at most two pages of live listings hold
\* between them exactly the live listings.  It is stated of the page the
\* script shows and the page the listing endpoint has answered with next.
C25_PagesPartitionLiveSet ==
    (Answered("auctions") /\ resp.status = 200 /\ pagination # <<>>
        /\ pagination[1] # resp.page) =>
        LET shown == IdsOf(currentAuctions)
            next == IdsOf(EncodeListing(resp).auctions)
        IN  /\ shown \cap next = {}
            /\ Cardinality(next) = Len(resp.auctions)
            /\ ({pagination[1], resp.page} = {1, 2}
                    /\ Cardinality(NotExpiredAt(now)) <= 2 * limit) =>
                   shown \cup next = {ah.id : ah \in NotExpiredAt(now)}

\* C26: for every page parameter, decimal strings beyond the int's range
\* included, the offset passed to the listing query is non-negative and is
\* (page - 1) * 50 computed without overflow, page being the page a 200 reports.
C26_OffsetFromPage ==
    Answered("auctions") =>
        LET offset == queries[1].args[2]
        IN  /\ ~offset.neg
            /\ offset.mag = MulMag(SubMag(page.mag, <<1>>), limit, 0)
            /\ resp.status = 200 => resp.page = page

\* The fetch issued by the submit that set the search term now active: the last
\* search the script has fetched.
Submitted ==
    CHOOSE k \in 1..Len(fetches) :
        /\ fetches[k].path = "search"
        /\ \A j \in (k + 1)..Len(fetches) : fetches[j].path # "search"

\* C27: in the page script, while a search term is active the auctions shown
\* are results of a search for that term: nothing fetched since the term was
\* submitted, by the 30 s timer or by the Refresh button, puts the unfiltered
\* listing in their place.
C27_SearchResultsStay ==
    (currentSearch # <<>> /\ auctionsBody.row = "auctions") =>
        LET k == auctionsBody.auctions.fetch
        IN  k >= Submitted =>
                fetches[k].path = "search" /\ fetches[k].arg = currentSearch

\* C28: in the page script, once no fetch is pending, and none has failed, the
\* auctions shown and the page in the pagination element are those of the
\* request issued last, which is for the current page or the current search
\* term, in whatever order the responses arrived.
C28_LastRequestShown ==
    (fetches # <<>> /\ \A k \in 1..Len(fetches) : fetches[k].state = "ok") =>
        LET last == fetches[Len(fetches)]
        IN  /\ auctionsBody.row = "auctions"
            /\ auctionsBody.auctions.path = last.path
            /\ auctionsBody.auctions.arg = last.arg
            /\ last.path = "auctions" =>
                   last.arg = currentPage /\ pagination = <<currentPage>>
            /\ last.path = "search" =>
                   last.arg = currentSearch /\ pagination = <<>>

====
